---- MODULE Spec2Model ----
(***************************************************************************)
(* Quality-check orchestrator (scripts/quality-check.js): the tool registry *)
(* `tools`, the suites `toolGroups`, parseArgs, runTool with its           *)
(* availability probe, runToolsSequential / runToolsParallel, printSummary *)
(* and main.  After it, the quality-check.cjs script the installer         *)
(* generates (specification InstallerSpec), the maintainability scorer     *)
(* scripts/maintainability-check.js (specification ScoreSpec) and the      *)
(* duplication checker scripts/duplication-check.js (specification         *)
(* DupSpec); each is a process of its own, so each has its own             *)
(* specification and the state of the others stays "off" in it.            *)
(*                                                                         *)
(* One run of the process is one behaviour.  Node runs main() synchronously*)
(* up to the first pending await, and after that only in the callbacks of  *)
(* child-process events; each action below is one such synchronous stretch *)
(* (the callback plus every promise continuation it releases).             *)
(***************************************************************************)
EXTENDS Integers, Sequences, FiniteSets, TLC

VARIABLES
    args,        \* process.argv.slice(2)
    failing,     \* environment: the registered tools whose outcome is "fail"
    reportsDir,  \* filesystem: does ./reports exist
    options,     \* result of parseArgs()
    pc,          \* "start" | "running" | "exited"
    exitCode,    \* process exit code, -1 while the process is alive
    calls,       \* the runTool* calls main has still to make, in order
    cur,         \* the runTool* call main is awaiting
    slots,       \* per tool of cur: "idle" | "probe" | "cmd" | "pass" | "fail"
    results,     \* main's results array
    runs,        \* per registered tool: what has been spawned for it so far
    invoked,     \* tool names in the order runTool was called
    order,       \* slots of cur (or of the last call) in the order they resolved
    out,         \* messages written to the console
    iq,          \* the process of the generated quality-check.cjs, a record
    sc,          \* the process of maintainability-check.js, a record
    dc           \* duplication-check.js: its process and the files it touches

\* the state of the orchestrator process
orchestrator == <<args, failing, reportsDir, options, pc, exitCode,
                  calls, cur, slots, results, runs, invoked, order, out>>

vars == <<orchestrator, iq, sc, dc>>

(* ------------------------------ bounds --------------------------------- *)

\* at most this many registered tools fail in one run
MaxFailing == 1

(* --------------------------- small helpers ----------------------------- *)

Range(s) == {s[i] : i \in DOMAIN s}

RECURSIVE SelectSeqIn(_, _)
SelectSeqIn(s, S) ==
    IF s = <<>> THEN <<>>
    ELSE IF Head(s) \in S THEN <<Head(s)>> \o SelectSeqIn(Tail(s), S)
    ELSE SelectSeqIn(Tail(s), S)

Msg(type, about) == [type |-> type, about |-> about]

(* --------------------------- tool registry ----------------------------- *)

\* path: the directory argument of the tool's args ("none": the args name
\* no directory, the tool works on the project it is started in)
ToolDesc(command, hasFixArgs, category, path) ==
    [command |-> command, hasFixArgs |-> hasFixArgs, category |-> category,
     path |-> path]

tools ==
       "prettier"               :> ToolDesc("npx", TRUE,  "formatting", ".")
    @@ "import-sorting"         :> ToolDesc("npx", TRUE,  "import-sorting", ".")
    @@ "linting"                :> ToolDesc("npx", TRUE,  "linting", ".")
    @@ "eslint"                 :> ToolDesc("npx", TRUE,  "linting", ".")
    @@ "type-check"             :> ToolDesc("npx", FALSE, "type-checking", "none")
    @@ "security-scanning"      :> ToolDesc("npx", TRUE,  "security-scanning", ".")
    @@ "vulnerability-checking" :> ToolDesc("npm", FALSE, "vulnerability-checking", "none")
    @@ "dead-code"              :> ToolDesc("npx", FALSE, "dead-code", "none")
    @@ "duplication"            :> ToolDesc("npx", FALSE, "duplication", ".")
    @@ "complexity"             :> ToolDesc("npx", FALSE, "complexity", ".")
    @@ "maintainability"        :> ToolDesc("node", FALSE, "maintainability", "none")
    @@ "dependency-check"       :> ToolDesc("npx", FALSE, "dependency-check", "src")

ToolNames == DOMAIN tools

toolGroups ==
       "formatting"             :> <<"prettier">>
    @@ "import-sorting"         :> <<"import-sorting">>
    @@ "linting"                :> <<"linting">>
    @@ "type-checking"          :> <<"type-check">>
    @@ "security-scanning"      :> <<"security-scanning">>
    @@ "vulnerability-checking" :> <<"vulnerability-checking">>
    @@ "dead-code"              :> <<"dead-code">>
    @@ "duplication"            :> <<"duplication">>
    @@ "complexity"             :> <<"complexity">>
    @@ "maintainability"        :> <<"maintainability">>
    @@ "dependency-check"       :> <<"dependency-check">>
    @@ "security"               :> <<"security-scanning", "vulnerability-checking">>
    @@ "analysis"               :> <<"dead-code", "duplication", "complexity",
                                     "maintainability", "dependency-check">>
    @@ "required"               :> <<"prettier", "import-sorting", "linting", "type-check">>
    @@ "fast"                   :> <<"prettier", "import-sorting", "linting", "type-check">>
    @@ "essential"              :> <<"prettier", "linting", "type-check">>
    @@ "all"                    :> <<"prettier", "import-sorting", "linting", "type-check",
                                     "security-scanning", "vulnerability-checking",
                                     "dead-code", "duplication", "complexity",
                                     "maintainability", "dependency-check">>

GroupNames == DOMAIN toolGroups

\* property names every JavaScript object literal inherits from
\* Object.prototype: toolGroups[name] and tools[name] are truthy for them
ProtoKeys == {"constructor"}

HelpWords == {"help", "--help", "-h"}

ValidIdentifiers == GroupNames \cup ToolNames

(* ------------------------------ parseArgs ------------------------------ *)

\* args.findIndex((arg) => arg === x), 1-based, 0 when there is none
FindIndex(a, x) ==
    IF \E i \in DOMAIN a : a[i] = x
    THEN CHOOSE i \in DOMAIN a : a[i] = x /\ \A j \in 1..(i - 1) : a[j] # x
    ELSE 0

parseArgs(a) ==
    [tool     |-> IF Len(a) > 0 THEN a[1] ELSE "help",
     fix      |-> "--fix" \in Range(a),
     verbose  |-> ("--verbose" \in Range(a)) \/ ("-v" \in Range(a)),
     quiet    |-> ("--quiet" \in Range(a)) \/ ("-q" \in Range(a)),
     parallel |-> "--parallel" \in Range(a),
     sourceDir |-> LET sourceDirIndex == FindIndex(a, "--source-dir")
                   IN  IF sourceDirIndex # 0 /\ sourceDirIndex + 1 \in DOMAIN a
                       THEN a[sourceDirIndex + 1]
                       ELSE "null"]

(* --------------------- the inputs of one invocation -------------------- *)

Flags == <<"--fix", "--parallel", "--quiet">>

FlagLists == {SelectSeqIn(Flags, F) : F \in SUBSET Range(Flags)}

\* the two spellings of the source directory option that are tried
SourceDirLists == {<<"--source-dir=lib">>, <<"--source-dir", "lib">>}

\* first tokens tried: every valid identifier, the help words, a name that
\* is registered nowhere, and an inherited property name
FirstTokens == ValidIdentifiers \cup HelpWords \cup {"bogus"} \cup ProtoKeys

\* the flag lists tried after an identifier: --quiet changes only what is
\* printed, so it is not combined with --parallel
IdFlagLists == {f \in FlagLists : ~({"--parallel", "--quiet"} \subseteq Range(f))}

ArgLists ==
    FlagLists \cup {<<id>> \o f : id \in FirstTokens, f \in IdFlagLists \cup SourceDirLists}

Environments == {F \in SUBSET ToolNames : Cardinality(F) <= MaxFailing}

(* ------------------------------- state --------------------------------- *)

NoCall == [fn |-> "none", toolNames |-> <<>>, fix |-> FALSE]

\* exit is "blocked" while the child waits to write to a pipe that is
\* full; output says whether runTool's `output` is not empty
NoRun == [calls |-> 0, probe |-> "none", spawns |-> 0, args |-> "none",
          target |-> "none", exit |-> "none", output |-> FALSE]

NoOptions == [tool |-> "", fix |-> FALSE, verbose |-> FALSE, quiet |-> FALSE,
              parallel |-> FALSE, sourceDir |-> "null"]

\* a process that is not part of the run
Off == [pc |-> "off"]

Init ==
    /\ iq = Off
    /\ sc = Off
    /\ dc = Off
    /\ args \in ArgLists
    /\ failing \in Environments
    /\ reportsDir \in BOOLEAN
    /\ options = NoOptions
    /\ pc = "start"
    /\ exitCode = -1
    /\ calls = <<>>
    /\ cur = NoCall
    /\ slots = <<>>
    /\ results = <<>>
    /\ runs = [t \in ToolNames |-> NoRun]
    /\ invoked = <<>>
    /\ order = <<>>
    /\ out = {}

(* ------------------- the engine, as a value threaded -------------------- *)
(* The operators below take and return a record e holding the fields of    *)
(* the engine's state (calls, cur, slots, results, runs, invoked, out, pc, *)
(* exitCode); an action commits the record it ends with.                   *)

Done == {"pass", "fail"}

Call(fn, toolNames, fix) == [fn |-> fn, toolNames |-> toolNames, fix |-> fix]

\* FixAllCalls, had step 3 honoured --parallel as the normal path does
FixAllCallsParallelAnalysis(o) ==
    << Call("runToolsSequential", toolGroups["formatting"], o.fix),
       Call("runToolsSequential", <<"eslint">>, TRUE),
       Call("runTool", <<"type-check">>, FALSE),
       Call(IF o.parallel THEN "runToolsParallel" ELSE "runToolsSequential",
            toolGroups["security"], FALSE),
       Call(IF o.parallel THEN "runToolsParallel" ELSE "runToolsSequential",
            toolGroups["analysis"], FALSE) >>

\* FixAllCalls, had step 3 passed the options on without `fix: false`
FixAllCallsGlobalFix(o) ==
    << Call("runToolsSequential", toolGroups["formatting"], o.fix),
       Call("runToolsSequential", <<"eslint">>, TRUE),
       Call("runTool", <<"type-check">>, FALSE),
       Call("runToolsSequential", toolGroups["security"], o.fix),
       Call("runToolsSequential", toolGroups["analysis"], o.fix) >>

\* main, fix mode of the full pipeline: the five awaited calls in order
FixAllCalls(o) ==
    << Call("runToolsSequential", toolGroups["formatting"], o.fix),
       Call("runToolsSequential", <<"eslint">>, TRUE),
       Call("runTool", <<"type-check">>, FALSE),
       Call("runToolsSequential", toolGroups["security"], FALSE),
       Call("runToolsSequential", toolGroups["analysis"], FALSE) >>

\* main, normal execution of `all`: one call per non-empty category
RECURSIVE CategoryCalls(_, _, _)
CategoryCalls(categories, o, toolsToRun) ==
    IF categories = <<>> THEN <<>>
    ELSE LET category == Head(categories)
             categoryTools == SelectSeqIn(toolGroups[category], Range(toolsToRun))
             rest == CategoryCalls(Tail(categories), o, toolsToRun)
         IN  IF Len(categoryTools) = 0 THEN rest
             ELSE IF o.parallel /\ category # "formatting"
                  THEN <<Call("runToolsParallel", categoryTools, o.fix)>> \o rest
                  ELSE <<Call("runToolsSequential", categoryTools, o.fix)>> \o rest

\* main, single tool or group
GroupCalls(o, toolsToRun) ==
    IF o.parallel /\ Len(toolsToRun) > 1
    THEN <<Call("runToolsParallel", toolsToRun, o.fix)>>
    ELSE <<Call("runToolsSequential", toolsToRun, o.fix)>>

\* main: the calls it awaits one after the other, from the options
Calls(o, toolsToRun) ==
    IF o.fix /\ o.tool = "all" THEN FixAllCalls(o)
    ELSE IF o.tool = "all"
         THEN CategoryCalls(<<"formatting", "linting", "security", "analysis">>,
                            o, toolsToRun)
         ELSE GroupCalls(o, toolsToRun)

\* runTool up to its first await: the registry lookup, then
\* checkToolAvailability spawns the `--version` probe
runTool(e, i) ==
    LET t == e.cur.toolNames[i] IN
    IF t \notin ToolNames
    THEN [e EXCEPT !.slots[i] = "fail",
                   !.order = Append(@, i),
                   !.invoked = Append(@, t),
                   !.out = @ \cup {Msg("Unknown tool", t)}]
    ELSE [e EXCEPT !.slots[i] = "probe",
                   !.invoked = Append(@, t),
                   !.runs[t].calls = @ + 1,
                   !.runs[t].probe = "pending"]

\* the global SOURCE_DIR, set by parseArgs
SOURCE_DIR == IF options.sourceDir # "null" THEN options.sourceDir ELSE "src"

\* runTool: processedArgs, arg.replace(/src\//g, `${SOURCE_DIR}/`), as the
\* directory the command is given
ProcessedPath(t) == IF tools[t].path = "src" THEN SOURCE_DIR ELSE tools[t].path

\* SpawnTool, had runTool skipped a tool without fixArgs in fix mode
\* (reported, resolved true, nothing spawned)
SpawnToolSkipsWithoutFix(e, i, quiet) ==
    LET t == e.cur.toolNames[i] IN
    IF e.cur.fix /\ ~tools[t].hasFixArgs
    THEN [e EXCEPT !.slots[i] = "pass",
                   !.order = Append(@, i),
                   !.runs[t].probe = "ok",
                   !.out = @ \cup {Msg("no fix available", t)}]
    ELSE [e EXCEPT !.slots[i] = "cmd",
                   !.runs[t].target = ProcessedPath(t),
                   !.runs[t].probe = "ok",
                   !.runs[t].spawns = @ + 1,
                   !.runs[t].args = IF e.cur.fix THEN "fix" ELSE "check",
                   !.runs[t].exit = "pending",
                   !.out = IF quiet THEN @ ELSE @ \cup {Msg("description", t)}]

\* runTool after the probe: args chosen by fix mode, the command spawned
SpawnTool(e, i, quiet) ==
    LET t == e.cur.toolNames[i] IN
    [e EXCEPT !.slots[i] = "cmd",
              !.runs[t].target = ProcessedPath(t),
              !.runs[t].probe = "ok",
              !.runs[t].spawns = @ + 1,
              !.runs[t].args = IF e.cur.fix /\ tools[t].hasFixArgs THEN "fix" ELSE "check",
              !.runs[t].exit = "pending",
              !.out = IF quiet THEN @ ELSE @ \cup {Msg("description", t)}]

\* NotInstalled, had runTool ignored the result of the probe
NotInstalledSpawnsAnyway(e, i, r) ==
    [SpawnTool(e, i, FALSE) EXCEPT !.runs[e.cur.toolNames[i]].probe = r]

\* runTool after a failed probe: reported, resolved false, nothing spawned
NotInstalled(e, i, r) ==
    LET t == e.cur.toolNames[i] IN
    [e EXCEPT !.slots[i] = "fail",
              !.order = Append(@, i),
              !.runs[t].probe = r,
              !.out = @ \cup {Msg("TOOL NOT INSTALLED", t), Msg("Install with", t)}]

\* runTool's close and error handlers of the tool's child process
ToolEnded(e, i, r, quiet) ==
    LET t == e.cur.toolNames[i] IN
    [e EXCEPT !.slots[i] = IF r = "zero" THEN "pass" ELSE "fail",
              !.order = Append(@, i),
              !.runs[t].exit = r,
              !.runs[t].output = FALSE,
              !.out = IF r = "error" THEN @ \cup {Msg("ERROR", t)}
                      ELSE IF quiet
                           THEN IF r = "nonzero" /\ e.runs[t].output
                                THEN @ \cup {Msg("output", t)} ELSE @
                      ELSE IF r = "zero" THEN @ \cup {Msg("PASSED", t)}
                      ELSE @ \cup {Msg("FAILED", t)}]

\* SequentialNext, had the loop stopped at the first failing tool
SequentialNextFailFast(e) ==
    IF (\E i \in DOMAIN e.slots : e.slots[i] \notin Done)
       /\ (\A i \in DOMAIN e.slots : e.slots[i] # "fail")
    THEN CHOOSE i \in DOMAIN e.slots :
            /\ e.slots[i] \notin Done
            /\ \A j \in 1..(i - 1) : e.slots[j] \in Done
    ELSE 0

\* runToolsSequential: index of the tool the loop runs next, 0 when it is over
SequentialNext(e) ==
    IF \E i \in DOMAIN e.slots : e.slots[i] \notin Done
    THEN CHOOSE i \in DOMAIN e.slots :
            /\ e.slots[i] \notin Done
            /\ \A j \in 1..(i - 1) : e.slots[j] \in Done
    ELSE 0

\* runToolsParallel: toolNames.map(runTool) calls runTool for every tool
RECURSIVE MapRunTool(_, _)
MapRunTool(e0, i) ==
    CHOOSE r \in {IF i > Len(e.cur.toolNames) THEN e
                  ELSE MapRunTool(runTool(e, i), i + 1) : e \in {e0}} : TRUE

\* Pending, had runToolsParallel resolved with the first tool to finish
\* (Promise.race in place of Promise.all)
PendingUntilFirst(e) ==
    IF e.cur.fn = "runToolsParallel"
    THEN \A i \in DOMAIN e.slots : e.slots[i] \notin Done
    ELSE SequentialNext(e) # 0

\* is the awaited call still pending
Pending(e) ==
    IF e.cur.fn = "runToolsParallel"
    THEN \E i \in DOMAIN e.slots : e.slots[i] \notin Done
    ELSE SequentialNext(e) # 0

\* CallResults, had each result been pushed when its tool finished
CallResultsAsCompleted(e) ==
    [k \in DOMAIN e.order |->
        [tool |-> e.cur.toolNames[e.order[k]], success |-> e.slots[e.order[k]] = "pass"]]

\* the array the awaited call resolves to: {tool, success} in toolNames order
CallResults(e) ==
    LET done == SelectSeqIn([i \in DOMAIN e.slots |-> i],
                            {i \in DOMAIN e.slots : e.slots[i] \in Done})
    IN  [k \in DOMAIN done |->
            [tool |-> e.cur.toolNames[done[k]], success |-> e.slots[done[k]] = "pass"]]

\* printSummary and process.exit(success ? 0 : 1)
printSummary(e, fix) ==
    LET failed == {k \in DOMAIN e.results : ~e.results[k].success}
        failedTools == Cardinality(failed)
    IN  [e EXCEPT !.out = @ \cup {Msg("SUMMARY", "")}
                           \cup {Msg("Failed tool", e.results[k].tool) : k \in failed}
                           \cup (IF failedTools = 0
                                 THEN {Msg("All quality checks passed", "")}
                                 ELSE {Msg("quality check(s) failed", "")})
                           \cup (IF failedTools # 0 /\ ~fix
                                 THEN {Msg("Try running with --fix", "")} ELSE {}),
                  !.pc = "exited",
                  !.exitCode = IF failedTools = 0 THEN 0 ELSE 1]

\* main from one await to the next: everything that runs before the
\* process goes back to waiting for a child process, or exits
RECURSIVE Continue(_, _)
ContinueStep(e, o) ==
    IF e.cur.fn = "none"
    THEN IF e.calls = <<>>
         THEN printSummary(e, o.fix)
         ELSE LET c  == Head(e.calls)
                  e1 == [e EXCEPT !.cur = c, !.calls = Tail(@), !.order = <<>>,
                                  !.slots = [i \in DOMAIN c.toolNames |-> "idle"]]
              IN  IF c.fn = "runToolsParallel"
                  THEN Continue(MapRunTool(e1, 1), o)
                  ELSE Continue(e1, o)
    ELSE IF ~Pending(e)
         THEN Continue([e EXCEPT !.results = @ \o CallResults(e),
                                 !.cur = NoCall, !.slots = <<>>], o)
    ELSE IF e.cur.fn = "runToolsParallel" THEN e
    ELSE LET i == SequentialNext(e)
         IN  IF e.slots[i] = "idle" THEN Continue(runTool(e, i), o) ELSE e

\* ContinueStep on the value of its argument
Continue(e0, o) == CHOOSE r \in {ContinueStep(e, o) : e \in {e0}} : TRUE

Engine ==
    [calls |-> calls, cur |-> cur, slots |-> slots, results |-> results,
     runs |-> runs, invoked |-> invoked, order |-> order, out |-> out, pc |-> pc,
     exitCode |-> exitCode]

Commit(e0) ==
    \E e \in {e0} :
    /\ calls' = e.calls
    /\ cur' = e.cur
    /\ slots' = e.slots
    /\ results' = e.results
    /\ runs' = e.runs
    /\ invoked' = e.invoked
    /\ order' = e.order
    /\ out' = e.out
    /\ pc' = e.pc
    /\ exitCode' = e.exitCode

(* ------------------------------- actions -------------------------------- *)

\* main: toolsToRun of an identifier found in toolGroups or in tools
Resolve(tool) == IF tool \in GroupNames THEN toolGroups[tool] ELSE <<tool>>

\* ensureReportsDirectory
ensureReportsDirectory == reportsDir' = TRUE

Header(o) == IF o.quiet THEN {} ELSE {Msg("header", "")}

\* main, help: printHelp and return; the process ends with code 0
MainHelp ==
    /\ pc = "start"
    /\ LET o == parseArgs(args) IN
       /\ o.tool \in HelpWords
       /\ options' = o
       /\ Commit([Engine EXCEPT !.out = @ \cup {Msg("help", "")},
                                !.pc = "exited", !.exitCode = 0])
    /\ UNCHANGED <<iq, sc, dc, args, failing, reportsDir>>

\* UnknownIdentifier, had the branch not called process.exit: main goes on
\* with the empty toolsToRun
UnknownIdentifierFallsThrough(e, o) ==
    Continue([e EXCEPT !.out = @ \cup {Msg("Unknown tool or group", o.tool),
                                       Msg("Use", "help")},
                       !.pc = "running",
                       !.calls = GroupCalls(o, <<>>)], o)

\* UnknownIdentifier, had the branch left out the pointer to `help`
UnknownIdentifierNoHint(e, o) ==
    [e EXCEPT !.out = @ \cup {Msg("Unknown tool or group", o.tool)},
              !.pc = "exited",
              !.exitCode = 1]

\* main, the else branch of the resolution: two messages and process.exit(1)
UnknownIdentifier(e, o) ==
    [e EXCEPT !.out = @ \cup {Msg("Unknown tool or group", o.tool), Msg("Use", "help")},
              !.pc = "exited",
              !.exitCode = 1]

\* main, identifier in neither table
MainUnknown ==
    /\ pc = "start"
    /\ LET o == parseArgs(args) IN
       /\ o.tool \notin HelpWords
       /\ o.tool \notin ValidIdentifiers \cup ProtoKeys
       /\ options' = o
       /\ ensureReportsDirectory
       /\ Commit(UnknownIdentifier([Engine EXCEPT !.out = @ \cup Header(o)], o))
    /\ UNCHANGED <<iq, sc, dc, args, failing>>

\* main, identifier that is an inherited property name: toolsToRun is not
\* an array, runToolsSequential / runToolsParallel throws a TypeError, and
\* main().catch prints it and calls process.exit(1)
MainThrows ==
    /\ pc = "start"
    /\ LET o == parseArgs(args) IN
       /\ o.tool \notin HelpWords
       /\ o.tool \in ProtoKeys \ GroupNames
       /\ options' = o
       /\ ensureReportsDirectory
       /\ Commit([Engine EXCEPT !.out = @ \cup Header(o) \cup {Msg("Error", "TypeError")},
                                !.pc = "exited", !.exitCode = 1])
    /\ UNCHANGED <<iq, sc, dc, args, failing>>

\* main, valid identifier: resolve it and run up to the first await
MainRun ==
    /\ pc = "start"
    /\ LET o == parseArgs(args) IN
       /\ o.tool \notin HelpWords
       /\ o.tool \in ValidIdentifiers
       /\ options' = o
       /\ ensureReportsDirectory
       /\ Commit(Continue([Engine EXCEPT !.out = @ \cup Header(o),
                                         !.pc = "running",
                                         !.calls = Calls(o, Resolve(o.tool))], o))
    /\ UNCHANGED <<iq, sc, dc, args, failing>>

\* what the environment lets the probe of tool t end with
ProbeOutcomes(t) == IF t \in failing THEN {"ok", "nonzero", "error"} ELSE {"ok"}

\* what the environment lets the command of tool t end with
ToolOutcomes(t) == IF t \in failing THEN {"nonzero", "error"} ELSE {"zero"}

\* the availability probe of the tool in slot i ends: checkToolAvailability
\* resolves, runTool goes on
ProbeClose(i) ==
    /\ pc = "running"
    /\ i \in DOMAIN slots
    /\ slots[i] = "probe"
    /\ \E r \in ProbeOutcomes(cur.toolNames[i]) :
          Commit(Continue(IF r = "ok" THEN SpawnTool(Engine, i, options.quiet)
                          ELSE NotInstalled(Engine, i, r), options))
    /\ UNCHANGED <<iq, sc, dc, args, failing, reportsDir, options>>

\* the command of the tool in slot i ends: runTool resolves
ToolClose(i) ==
    /\ pc = "running"
    /\ i \in DOMAIN slots
    /\ slots[i] = "cmd"
    /\ runs[cur.toolNames[i]].exit = "pending"
    /\ \E r \in ToolOutcomes(cur.toolNames[i]) :
          Commit(Continue(ToolEnded(Engine, i, r, options.quiet), options))
    /\ UNCHANGED <<iq, sc, dc, args, failing, reportsDir, options>>

\* runTool's handler of the child's stdout, attached in quiet mode only:
\* the data is read from the pipe and appended to output
StdoutData(i) ==
    /\ pc = "running"
    /\ i \in DOMAIN slots
    /\ slots[i] = "cmd"
    /\ options.quiet
    /\ runs[cur.toolNames[i]].exit = "pending"
    /\ ~runs[cur.toolNames[i]].output
    /\ runs' = [runs EXCEPT ![cur.toolNames[i]].output = TRUE]
    /\ UNCHANGED <<iq, sc, dc, args, failing, reportsDir, options, pc, exitCode,
                   calls, cur, slots, results, invoked, order, out>>

\* the child of the tool in slot i, spawned with stdio "pipe", has written
\* to stderr until the pipe is full: nothing in runTool reads that pipe, so
\* the child waits in its write
StderrFull(i) ==
    /\ pc = "running"
    /\ i \in DOMAIN slots
    /\ slots[i] = "cmd"
    /\ options.quiet
    /\ runs[cur.toolNames[i]].exit = "pending"
    /\ runs' = [runs EXCEPT ![cur.toolNames[i]].exit = "blocked"]
    /\ UNCHANGED <<iq, sc, dc, args, failing, reportsDir, options, pc, exitCode,
                   calls, cur, slots, results, invoked, order, out>>

Next ==
    \/ MainHelp
    \/ MainUnknown
    \/ MainThrows
    \/ MainRun
    \/ \E i \in 1..Len(toolGroups["all"]) : ProbeClose(i)
    \/ \E i \in 1..Len(toolGroups["all"]) : ToolClose(i)
    \/ \E i \in 1..Len(toolGroups["all"]) : StdoutData(i)

Spec == Init /\ [][Next]_vars

\* the event loop runs main, and every child process started terminates
Fairness == WF_vars(Next)

\* the invocations whose termination is checked: the full pipeline with
\* and without --fix, suites run in parallel and in sequence, a single
\* tool, an unknown identifier, an inherited property name, no argument
LiveArgLists ==
    { <<"all">>, <<"all", "--fix">>, <<"required", "--parallel">>,
      <<"security", "--parallel">>, <<"security", "--quiet">>,
      <<"type-check", "--fix">>, <<"bogus">>, <<"constructor">>, <<>> }

LiveInit == Init /\ args \in LiveArgLists /\ ~reportsDir

\* the orchestrator is not part of the run
OrchestratorOff ==
    /\ args = <<>>
    /\ failing = {}
    /\ reportsDir = FALSE
    /\ options = NoOptions
    /\ pc = "off"
    /\ exitCode = -1
    /\ calls = <<>>
    /\ cur = NoCall
    /\ slots = <<>>
    /\ results = <<>>
    /\ runs = [t \in ToolNames |-> NoRun]
    /\ invoked = <<>>
    /\ order = <<>>
    /\ out = {}

FairSpec == LiveInit /\ [][Next]_vars /\ Fairness

\* the steps of a run whose tools may write any amount to stderr
PipeNext ==
    \/ Next
    \/ \E i \in 1..Len(toolGroups["all"]) : StderrFull(i)

\* the event loop runs main and the handlers, a child that is not waiting
\* on a full pipe terminates
PipeSpec == LiveInit /\ [][PipeNext]_vars /\ WF_vars(PipeNext)

(* ------- quality-check.cjs, the script the installer generates ---------- *)
(* install.sh writes the script from a here-document; the process it runs  *)
(* as is the record iq: args, failing and security are its inputs, todo    *)
(* the tools its loop has still to execute, child the tool whose process   *)
(* it awaits, spawned the commands it has started.                         *)

\* has the tool a fix command next to its check command
CjsToolDesc(hasFix) == [hasFix |-> hasFix]

\* `tools` of quality-check.cjs
cjsTools ==
       "prettier"         :> CjsToolDesc(TRUE)
    @@ "import-sorting"   :> CjsToolDesc(TRUE)
    @@ "linting"          :> CjsToolDesc(TRUE)
    @@ "type-checking"    :> CjsToolDesc(FALSE)
    @@ "security"         :> CjsToolDesc(FALSE)
    @@ "dead-code"        :> CjsToolDesc(FALSE)
    @@ "duplication"      :> CjsToolDesc(FALSE)
    @@ "complexity"       :> CjsToolDesc(FALSE)
    @@ "maintainability"  :> CjsToolDesc(FALSE)
    @@ "dependency-check" :> CjsToolDesc(FALSE)

CjsToolNames == DOMAIN cjsTools

\* Object.keys(tools), in insertion order
CjsToolKeys ==
    <<"prettier", "import-sorting", "linting", "type-checking", "security",
      "dead-code", "duplication", "complexity", "maintainability",
      "dependency-check">>

\* `suites` of quality-check.cjs
suites ==
       "all"      :> CjsToolKeys
    @@ "required" :> <<"prettier", "linting", "type-checking">>
    @@ "security" :> <<"security", "vulnerability-checking">>
    @@ "analysis" :> <<"dead-code", "duplication", "complexity", "maintainability",
                       "dependency-check">>

SuiteNames == DOMAIN suites

\* first arguments tried: every tool, every suite, a suite member that is
\* no tool, and a name that is registered nowhere
CjsFirstTokens == CjsToolNames \cup SuiteNames \cup {"vulnerability-checking", "bogus"}

CjsArgLists ==
    {<<>>, <<"--fix">>} \cup {<<id>> \o f : id \in CjsFirstTokens, f \in {<<>>, <<"--fix">>}}

CjsEnvironments == {F \in SUBSET CjsToolNames : Cardinality(F) <= MaxFailing}

\* the process at its start
CjsStart(a, F, security) ==
    [pc |-> "start", args |-> a, failing |-> F, security |-> security,
     suite |-> FALSE, shouldFix |-> FALSE, todo |-> <<>>, success |-> TRUE,
     child |-> "none", spawned |-> <<>>, exitCode |-> -1, out |-> {}]

InstallerInit ==
    /\ OrchestratorOff
    /\ sc = Off
    /\ dc = Off
    /\ iq \in {CjsStart(a, F, s) : a \in CjsArgLists, F \in CjsEnvironments, s \in BOOLEAN}

\* executeTool: the command chosen, "null" when the tool has none
CjsCommand(q, toolName) ==
    IF q.shouldFix /\ cjsTools[toolName].hasFix THEN "fix"
    ELSE IF toolName = "security" /\ ~q.security THEN "null"
    ELSE "check"

\* main: what it does with the value executeTool resolved to
CjsResult(q, result) ==
    [q EXCEPT !.success = IF q.suite THEN (@ /\ result) ELSE result]

\* main from one await to the next: the loop calls executeTool for the
\* tools still to run, until one spawns its command or none is left and
\* the process exits
RECURSIVE CjsExecuteNext(_)
CjsExecuteNext(q0) ==
    CHOOSE r \in {
        IF q.todo = <<>>
        THEN [q EXCEPT !.pc = "exited", !.exitCode = IF q.success THEN 0 ELSE 1]
        ELSE LET toolName == Head(q.todo)
                 q1 == [q EXCEPT !.todo = Tail(@)]
             IN  IF toolName \notin CjsToolNames
                 THEN CjsExecuteNext(CjsResult(
                         [q1 EXCEPT !.out = @ \cup {Msg("Unknown tool", toolName)}],
                         FALSE))
                 ELSE IF CjsCommand(q, toolName) = "null"
                 THEN CjsExecuteNext(CjsResult(
                         [q1 EXCEPT !.out = @ \cup {Msg("No command available", toolName)}],
                         TRUE))
                 ELSE [q1 EXCEPT !.pc = "running",
                                 !.child = toolName,
                                 !.spawned = Append(@, [tool |-> toolName,
                                                        args |-> CjsCommand(q, toolName)]),
                                 !.out = @ \cup {Msg("description", toolName)}]
        : q \in {q0}} : TRUE

\* main without a first argument: the usage, and the process ends
CjsUsage ==
    /\ iq.pc = "start"
    /\ iq.args = <<>>
    /\ iq' = [iq EXCEPT !.pc = "exited", !.exitCode = 0,
                        !.out = @ \cup {Msg("Usage", "")}]
    /\ UNCHANGED <<orchestrator, sc, dc>>

\* main with a first argument: a suite's members, or the argument as a tool
CjsMain ==
    /\ iq.pc = "start"
    /\ iq.args # <<>>
    /\ LET toolOrSuite == iq.args[1]
           isSuite == toolOrSuite \in SuiteNames
       IN  iq' = CjsExecuteNext(
                    [iq EXCEPT !.pc = "running",
                               !.shouldFix = "--fix" \in Range(iq.args),
                               !.suite = isSuite,
                               !.todo = IF isSuite THEN suites[toolOrSuite]
                                        ELSE <<toolOrSuite>>,
                               !.out = IF isSuite THEN @ \cup {Msg("Running suite", toolOrSuite)}
                                       ELSE @])
    /\ UNCHANGED <<orchestrator, sc, dc>>

\* what the environment lets the command of a tool end with: an exit code,
\* or a failure to start it
CjsOutcomes(q, toolName) ==
    IF toolName \in q.failing THEN {"nonzero", "error"} ELSE {"zero"}

\* the close handler of the child: executeTool resolves and main goes on
CjsClose ==
    /\ iq.pc = "running"
    /\ iq.child # "none"
    /\ \E r \in CjsOutcomes(iq, iq.child) \ {"error"} :
          iq' = CjsExecuteNext(CjsResult(
                   [iq EXCEPT !.child = "none",
                              !.out = @ \cup {Msg(IF r = "zero" THEN "Success" ELSE "Failed",
                                                  iq.child)}],
                   r = "zero"))
    /\ UNCHANGED <<orchestrator, sc, dc>>

\* the child emits `error`: executeTool listens only for `close`, so the
\* event is an uncaught exception and the process ends with code 1
CjsSpawnError ==
    /\ iq.pc = "running"
    /\ iq.child # "none"
    /\ "error" \in CjsOutcomes(iq, iq.child)
    /\ iq' = [iq EXCEPT !.pc = "exited", !.exitCode = 1, !.child = "none",
                        !.out = @ \cup {Msg("Uncaught error", iq.child)}]
    /\ UNCHANGED <<orchestrator, sc, dc>>

InstallerNext ==
    \/ CjsUsage
    \/ CjsMain
    \/ CjsClose
    \/ CjsSpawnError

InstallerSpec == InstallerInit /\ [][InstallerNext]_vars

(* ------- maintainability-check.js, the maintainability scorer ----------- *)
(* The process is the record sc: args and analyzer are its inputs (the     *)
(* command line, can typhonjs-escomplex-module be imported), dir the files *)
(* under the source directory, files those getFilesToAnalyze returned,     *)
(* each with what the analyzer returns for it, results the array           *)
(* analyzeFiles has built so far, report what generateReport returned.     *)

\* at most this many files are found under the source directory
MaxFiles == 2

\* config.complexity.maxCyclomatic
maxCyclomatic == 10

\* config.complexity.maxLines
maxLines == 300

\* config.thresholds.acceptable
acceptable == 70

\* scores are held in fiftieths of a point: the line penalty,
\* (lines - maxLines) / 50, is the only division before the final one
Scale == 50

Max(a, b) == IF a >= b THEN a ELSE b

\* a function of a file: its cyclomatic complexity and its length in lines
Fn(complexity, lines) == [complexity |-> complexity, lines |-> lines]

\* what analyzeFileComplexity returns for a file it could analyze
FileMetrics(maintainability, complexity, lines, functions) ==
    [error |-> FALSE, maintainability |-> maintainability,
     complexity |-> complexity, lines |-> lines, functions |-> functions]

\* what analyzeFileComplexity returns when the analysis throws
ErrorEntry ==
    [error |-> TRUE, maintainability |-> 0, complexity |-> 0, lines |-> 0,
     functions |-> <<>>]

\* escomplex's maintainability index (newmi is not set): at most 171,
\* above 100 for small files, below 0 for very long ones
Maintainabilities == {-5, 65, 120}

\* aggregate cyclomatic complexities: at, just above and far above the limit
Complexities == {10, 11, 40}

\* line counts: below and above maxLines
LineCounts == {100, 350}

\* the analyzer's results tried: a file without functions or with one
\* function that holds all its branches, an empty file, a failed analysis
FileOutcomes ==
    {FileMetrics(m, c, l, f) : m \in Maintainabilities, c \in Complexities,
                               l \in LineCounts, f \in {<<>>}}
    \cup {FileMetrics(m, c, l, <<Fn(c, l)>>) : m \in Maintainabilities, c \in Complexities,
                                        l \in LineCounts}
    \cup {FileMetrics(171, 1, 0, <<>>), ErrorEntry}

RECURSIVE SeqsUpTo(_, _)
SeqsUpTo(S, n) ==
    IF n = 0 THEN {<<>>}
    ELSE LET shorter == SeqsUpTo(S, n - 1)
         IN  shorter \cup {Append(s, x) : s \in {t \in shorter : Len(t) = n - 1}, x \in S}

\* rationals as num / den with den > 0
Rat(num, den) == [num |-> num, den |-> den]

\* Weight, had every file counted the same
WeightOne(result) == 1

\* calculateMaintainabilityScore: the weight of a file
Weight(result) == Max(1, result.lines)

\* calculateMaintainabilityScore: the score a file enters the sum with, in
\* fiftieths; each penalty that applies is subtracted and floored at 0
FileScore(result) ==
    LET raw == result.maintainability * Scale
        afterComplexity ==
            IF result.complexity > maxCyclomatic
            THEN Max(0, raw - (result.complexity - maxCyclomatic) * 2 * Scale)
            ELSE raw
        afterLines ==
            IF result.lines > maxLines
            THEN Max(0, afterComplexity - ((result.lines - maxLines) * Scale) \div 50)
            ELSE afterComplexity
        complexFunctions == SelectSeqIn(result.functions,
                                        {f \in Range(result.functions) :
                                            f.complexity > maxCyclomatic})
    IN  IF Len(complexFunctions) > 0
        THEN Max(0, afterLines - Len(complexFunctions) * 3 * Scale)
        ELSE afterLines

\* an error entry, had the loop no `continue` for it
SkippedNever(result) == FALSE

\* calculateMaintainabilityScore: if (result.error) continue
Skipped(result) == result.error

\* calculateMaintainabilityScore: the loop over the results
RECURSIVE ScoreLoop(_, _, _)
ScoreLoop(rs, totalScore, totalWeight) ==
    IF rs = <<>> THEN [totalScore |-> totalScore, totalWeight |-> totalWeight]
    ELSE LET result == Head(rs) IN
         IF Skipped(result) THEN ScoreLoop(Tail(rs), totalScore, totalWeight)
         ELSE ScoreLoop(Tail(rs), totalScore + FileScore(result) * Weight(result),
                        totalWeight + Weight(result))

\* calculateMaintainabilityScore, in fiftieths
calculateMaintainabilityScore(rs) ==
    IF Len(rs) = 0 THEN Rat(0, 1)
    ELSE LET t == ScoreLoop(rs, 0, 0)
         IN  IF t.totalWeight > 0 THEN Rat(t.totalScore, t.totalWeight) ELSE Rat(0, 1)

\* config.thresholds.excellent
excellent == 90

\* config.thresholds.good
good == 80

\* config.thresholds.needsImprovement
needsImprovement == 60

\* score >= n, for a score held in fiftieths
AtLeast(score, n) == score.num >= n * Scale * score.den

\* getGrade, had its comparisons been strict
getGradeStrict(score) ==
    IF ~AtLeast(score, excellent) \/ score.num = excellent * Scale * score.den
    THEN IF ~AtLeast(score, good) \/ score.num = good * Scale * score.den
         THEN IF ~AtLeast(score, acceptable) \/ score.num = acceptable * Scale * score.den
              THEN IF ~AtLeast(score, needsImprovement)
                      \/ score.num = needsImprovement * Scale * score.den
                   THEN "Requires Refactoring"
                   ELSE "Needs Improvement"
              ELSE "Acceptable"
         ELSE "Good"
    ELSE "Excellent"

\* getGrade: the level of the grade
getGrade(score) ==
    IF AtLeast(score, excellent) THEN "Excellent"
    ELSE IF AtLeast(score, good) THEN "Good"
    ELSE IF AtLeast(score, acceptable) THEN "Acceptable"
    ELSE IF AtLeast(score, needsImprovement) THEN "Needs Improvement"
    ELSE "Requires Refactoring"

\* all functions of all results: results.flatMap((r) => r.functions)
RECURSIVE FlatFunctions(_)
FlatFunctions(rs) ==
    IF rs = <<>> THEN <<>> ELSE Head(rs).functions \o FlatFunctions(Tail(rs))

\* generateRecommendations: the messages of the recommendations pushed
generateRecommendations(rs, overallScore) ==
    (IF ~AtLeast(overallScore, acceptable)
     THEN {"Overall maintainability score is below acceptable threshold"} ELSE {})
    \cup (IF \E i \in DOMAIN rs : rs[i].complexity > maxCyclomatic
          THEN {"files have high cyclomatic complexity"} ELSE {})
    \cup (IF \E i \in DOMAIN rs : rs[i].lines > maxLines
          THEN {"files exceed recommended line count"} ELSE {})
    \cup (IF \E f \in Range(FlatFunctions(rs)) : f.complexity > maxCyclomatic
          THEN {"functions have high complexity"} ELSE {})
    \cup (IF \E f \in Range(FlatFunctions(rs)) : f.lines > 50
          THEN {"functions are longer than 50 lines"} ELSE {})

\* no report has been generated
NoReport ==
    [made |-> FALSE, overallScore |-> Rat(0, 1), grade |-> "", totalFiles |-> 0,
     errorFiles |-> 0, recommendations |-> {}]

\* generateReport
generateReport(rs, overallScore) ==
    [made |-> TRUE, overallScore |-> overallScore, grade |-> getGrade(overallScore),
     totalFiles |-> Len(rs),
     errorFiles |-> Cardinality({i \in DOMAIN rs : rs[i].error}),
     recommendations |-> generateRecommendations(rs, overallScore)]

(* the command line of the scorer *)

\* options.threshold when --threshold is not given: no number
null == -1

\* parseFloat of the text after `=`, for the threshold options tried
ThresholdOf(token) ==
    CASE token = "--threshold=0"  -> 0
      [] token = "--threshold=90" -> 90

\* arg.startsWith("--threshold=")
IsThreshold(token) == token \in {"--threshold=0", "--threshold=90"}

\* parseArgs of maintainability-check.js (the options that only change
\* what is printed are left out)
scParseArgs(a) ==
    [threshold |-> IF \E i \in DOMAIN a : IsThreshold(a[i])
                   THEN ThresholdOf(a[CHOOSE i \in DOMAIN a :
                                         /\ IsThreshold(a[i])
                                         /\ \A j \in 1..(i - 1) : ~IsThreshold(a[j])])
                   ELSE null,
     includeTests |-> "--include-tests" \in Range(a)]

ScArgLists ==
    { <<>>, <<"--help">>, <<"--threshold=0">>, <<"--threshold=90">>,
      <<"--include-tests">>, <<"--include-tests", "--threshold=90">> }

(* the files under the source directory *)

\* a path relative to the working directory: its directories, and the
\* parts of the file name between the dots
Path(dirs, base) == [dirs |-> dirs, base |-> base]

\* getFilesToAnalyze: extensions, without the dot
extensions == {"ts", "tsx", "js", "jsx"}

\* config.exclude, the patterns that can match a file name tried here
exclude == {"**/*.test.*", "**/*.spec.*"}

\* the word between the dots of an exclude pattern **/*.word.*
PatternWord(pattern) == IF pattern = "**/*.test.*" THEN "test" ELSE "spec"

\* shouldSkipPath: the pattern becomes the unanchored regular expression
\* .[^/]*/[^/]*.word.[^/]* , which matches a path with a directory before a
\* name that has the word with a character on each side of it
shouldSkipPath(p) ==
    \E pattern \in exclude :
        /\ p.dirs # <<>>
        /\ \E k \in 2..(Len(p.base) - 1) : p.base[k] = PatternWord(pattern)

\* /\.(test|spec)\.(ts|tsx|js|jsx)$/
isTestFile(p) ==
    /\ Len(p.base) >= 3
    /\ p.base[Len(p.base)] \in extensions
    /\ p.base[Len(p.base) - 1] \in {"test", "spec"}

\* shouldIncludeFile
shouldIncludeFile(p, o) ==
    IF Len(p.base) < 2 \/ p.base[Len(p.base)] \notin extensions THEN FALSE
    ELSE ~(isTestFile(p) /\ ~o.includeTests) /\ ~shouldSkipPath(p)

\* a file of the source directory: its path and what the analyzer returns
\* for it
DirEntry(p, outcome) == [path |-> p, outcome |-> outcome]

\* the files tried: a source file with every analyzer result, and two test
\* files
DirEntries ==
    {DirEntry(Path(<<"src">>, <<"app", "ts">>), r) : r \in FileOutcomes}
    \cup {DirEntry(Path(<<"src">>, <<"app", "test", "ts">>), FileMetrics(120, 10, 100, <<>>)),
          DirEntry(Path(<<"src">>, <<"app", "spec", "jsx">>), FileMetrics(120, 10, 100, <<>>))}

Directories == SeqsUpTo(DirEntries, MaxFiles)

\* getFilesToAnalyze: the files of the directory in scan order that
\* shouldIncludeFile accepts
getFilesToAnalyze(dir, o) ==
    SelectSeqIn(dir, {d \in Range(dir) : shouldIncludeFile(d.path, o)})

\* handleFinalResult: threshold = options.threshold || acceptable
handleFinalResult(q, overallScore) ==
    LET threshold == IF q.options.threshold \in {null, 0} THEN acceptable
                     ELSE q.options.threshold
        success == AtLeast(overallScore, threshold)
    IN  [q EXCEPT !.pc = "exited",
                  !.exitCode = IF success THEN 0 ELSE 1,
                  !.out = @ \cup {Msg(IF success THEN "Maintainability check passed"
                                      ELSE "Maintainability below threshold", "")}]

ScStart(a, analyzer) ==
    [pc |-> "start", args |-> a, options |-> scParseArgs(a),
     help |-> "--help" \in Range(a), analyzer |-> analyzer,
     scanned |-> FALSE, dir |-> <<>>, files |-> <<>>,
     results |-> <<>>, scored |-> FALSE, overallScore |-> Rat(0, 1),
     report |-> NoReport, exitCode |-> -1, out |-> {}]

ScoreInit ==
    /\ OrchestratorOff
    /\ iq = Off
    /\ dc = Off
    /\ sc \in {ScStart(a, analyzer) : a \in ScArgLists, analyzer \in BOOLEAN}

\* main with --help or -h: printHelp and return
ScHelp ==
    /\ sc.pc = "start"
    /\ sc.help
    /\ sc' = [sc EXCEPT !.pc = "exited", !.exitCode = 0, !.out = @ \cup {Msg("help", "")}]
    /\ UNCHANGED <<orchestrator, iq, dc>>

\* main when validateToolAvailability finds the analyzer missing: two
\* messages and return
ScToolsMissing ==
    /\ sc.pc = "start"
    /\ ~sc.help
    /\ ~sc.analyzer
    /\ sc' = [sc EXCEPT !.pc = "exited", !.exitCode = 0,
                        !.out = @ \cup {Msg("header", ""), Msg("Missing required tools", ""),
                                        Msg("Install with", "")}]
    /\ UNCHANGED <<orchestrator, iq, dc>>

\* main after validateToolAvailability: getFilesToAnalyze, then return when
\* there is no file, else the first turn of analyzeFiles
ScMain ==
    /\ sc.pc = "start"
    /\ ~sc.help
    /\ sc.analyzer
    /\ \E dir \in Directories :
          LET files == getFilesToAnalyze(dir, sc.options) IN
          sc' = IF Len(files) = 0
                THEN [sc EXCEPT !.pc = "exited", !.exitCode = 0,
                                !.scanned = TRUE, !.dir = dir,
                                !.out = @ \cup {Msg("header", ""),
                                                Msg("No files found to analyze", "")}]
                ELSE [sc EXCEPT !.pc = "analyzing", !.files = files,
                                !.scanned = TRUE, !.dir = dir,
                                !.out = @ \cup {Msg("header", ""), Msg("Analyzing", "")}]
    /\ UNCHANGED <<orchestrator, iq, dc>>

\* analyzeFiles: analyzeFileComplexity resolves for the next file; after
\* the last one main computes the score, reports and exits
ScAnalyzeFile ==
    /\ sc.pc = "analyzing"
    /\ LET analyzed == Append(sc.results, sc.files[Len(sc.results) + 1].outcome)
           q == [sc EXCEPT !.results = analyzed]
       IN  sc' = IF Len(analyzed) < Len(sc.files) THEN q
                 ELSE LET overallScore == calculateMaintainabilityScore(analyzed)
                      IN  handleFinalResult(
                             [q EXCEPT !.scored = TRUE,
                                       !.overallScore = overallScore,
                                       !.report = generateReport(analyzed, overallScore),
                                       !.out = @ \cup {Msg("report", ""),
                                                       Msg("Reports saved", "")}],
                             overallScore)
    /\ UNCHANGED <<orchestrator, iq, dc>>

ScoreNext ==
    \/ ScHelp
    \/ ScToolsMissing
    \/ ScMain
    \/ ScAnalyzeFile

ScoreSpec == ScoreInit /\ [][ScoreNext]_vars

(* ------- duplication-check.js, the duplication checker ------------------ *)
(* The record dc holds the project's files the script touches (report:     *)
(* reports/duplication/jscpd-report.json, jscpdConfig: .jscpd.json in the  *)
(* project root, outputDir: does reports/duplication exist) and the        *)
(* process of the current run; the script is run again and again on the    *)
(* same project, ran counts the runs that have ended.                      *)

\* at most this many runs of the script, one after the other
MaxRuns == 2

\* config.thresholds.maxPercentage
maxPercentage == 10

\* a file that does not exist
NoFile == [kind |-> "none", percentage |-> 0]

\* jscpd-report.json as jscpd wrote it: with statistics.percentage, with
\* statistics that have no percentage, without statistics, or not JSON
ReportFile(kind, percentage) == [kind |-> kind, percentage |-> percentage]

Percentages == {7, 10, 15}

ReportFiles ==
    {ReportFile("report", p) : p \in Percentages}
    \cup {ReportFile("nopercentage", 0), ReportFile("nostats", 0), ReportFile("malformed", 0)}

DcArgLists == { <<>>, <<"--help">>, <<"--threshold=5">>, <<"--quiet">> }

\* parseArgs of duplication-check.js: parseFloat of the text after `=`
DcThreshold(a) == IF "--threshold=5" \in Range(a) THEN 5 ELSE null

\* the project before the first run; .jscpd.json is the file the suite's
\* setup copies into the project root
DupInit ==
    /\ OrchestratorOff
    /\ iq = Off
    /\ sc = Off
    /\ dc \in {[pc |-> "idle", ran |-> 0, args |-> <<>>, quiet |-> FALSE,
                maxPercentage |-> maxPercentage, outputDir |-> FALSE, report |-> NoFile,
                jscpdConfig |-> c, configAtStart |-> c, written |-> NoFile,
                read |-> NoFile, code |-> -1, exitCode |-> -1, out |-> {}]
               : c \in {"absent", "user"}}

\* a new process of the script: parseArgs, and main's override of the
\* threshold
DcStarted(a) ==
    [dc EXCEPT !.args = a,
               !.quiet = "--quiet" \in Range(a),
               !.maxPercentage = IF DcThreshold(a) # null THEN DcThreshold(a)
                                 ELSE maxPercentage,
               !.configAtStart = dc.jscpdConfig,
               !.written = NoFile, !.read = NoFile, !.code = -1,
               !.exitCode = -1, !.out = {}]

\* main after runDuplicationCheck: the verdict, process.exit(success ? 0 : 1)
DcExit(q, success) ==
    [q EXCEPT !.pc = "idle", !.ran = @ + 1,
              !.exitCode = IF success THEN 0 ELSE 1,
              !.out = IF q.quiet THEN @
                      ELSE @ \cup {Msg(IF success THEN "Duplication check passed"
                                       ELSE "Duplication check failed", "")}]

\* main with --help: printHelp and return
DcHelp ==
    /\ dc.pc = "idle"
    /\ dc.ran < MaxRuns
    /\ \E a \in DcArgLists :
          /\ "--help" \in Range(a)
          /\ dc' = [DcStarted(a) EXCEPT !.ran = @ + 1, !.exitCode = 0,
                                        !.out = {Msg("help", "")}]
    /\ UNCHANGED <<orchestrator, iq, sc>>

\* main up to the first await: runDuplicationCheck spawns the probe
\* `npx jscpd --version`
DcMain ==
    /\ dc.pc = "idle"
    /\ dc.ran < MaxRuns
    /\ \E a \in DcArgLists :
          /\ "--help" \notin Range(a)
          /\ dc' = [DcStarted(a) EXCEPT !.pc = "probe",
                                        !.out = IF "--quiet" \in Range(a) THEN {}
                                                ELSE {Msg("header", "")}]
    /\ UNCHANGED <<orchestrator, iq, sc>>

\* createJscpdConfig: writeFileSync of .jscpd.json in the project root
createJscpdConfig(q) == [q EXCEPT !.jscpdConfig = "generated"]

\* checkJscpdAvailability resolves: without jscpd two messages and the run
\* fails; with it the output directory and the configuration are written
\* and jscpd is spawned
DcProbeClose ==
    /\ dc.pc = "probe"
    /\ \E r \in {"ok", "nonzero", "error"} :
          dc' = IF r # "ok"
                THEN DcExit([dc EXCEPT !.out = @ \cup {Msg("jscpd is not installed", ""),
                                                       Msg("Install with", "")}],
                            FALSE)
                ELSE [createJscpdConfig(dc) EXCEPT
                         !.pc = "jscpd",
                         !.outputDir = TRUE,
                         !.out = IF dc.quiet THEN @
                                 ELSE @ \cup {Msg("Running code duplication analysis", "")}]
    /\ UNCHANGED <<orchestrator, iq, sc>>

\* jscpd writes its JSON report into the output directory
JscpdWritesReport ==
    /\ dc.pc = "jscpd"
    /\ dc.written = NoFile
    /\ \E f \in ReportFiles : dc' = [dc EXCEPT !.report = f, !.written = f]
    /\ UNCHANGED <<orchestrator, iq, sc>>

\* the close handler's verdict on the content of jscpd-report.json:
\* JSON.parse throws, no file, or percentage <= maxPercentage with 0 for a
\* report without statistics
Passes(file, limit) ==
    CASE file.kind = "none" -> TRUE
      [] file.kind = "malformed" -> FALSE
      [] file.kind = "nostats" -> 0 <= limit
      [] file.kind = "nopercentage" -> FALSE
      [] file.kind = "report" -> file.percentage <= limit

\* provideSummary and the messages of the close handler around it
SummaryMessages(file, limit) ==
    CASE file.kind = "none" -> {Msg("No duplication report generated", "")}
      [] file.kind = "malformed" -> {Msg("Error parsing results", "")}
      [] file.kind = "nostats" ->
            {Msg("SUMMARY", ""), Msg("No duplication statistics available", "")}
      [] file.kind = "nopercentage" ->
            {Msg("SUMMARY", ""), Msg("Within threshold", ""), Msg("Reports generated", "")}
      [] file.kind = "report" ->
            {Msg("SUMMARY", ""), Msg("Reports generated", "")}
            \cup (IF file.percentage <= limit THEN {Msg("Within threshold", "")}
                  ELSE {Msg("Exceeds threshold", ""), Msg("Action required", "")})

\* the close handler of jscpd: the exit code is not looked at, .jscpd.json
\* is unlinked, then jscpd-report.json is read if it exists
DcJscpdClose ==
    /\ dc.pc = "jscpd"
    /\ \E code \in {0, 1} :
          dc' = DcExit([dc EXCEPT !.code = code,
                                  !.jscpdConfig = "absent",
                                  !.read = dc.report,
                                  !.out = IF dc.quiet THEN @
                                          ELSE @ \cup {Msg("completed", "")}
                                                 \cup SummaryMessages(dc.report,
                                                                      dc.maxPercentage)],
                       Passes(dc.report, dc.maxPercentage))
    /\ UNCHANGED <<orchestrator, iq, sc>>

\* the error handler of jscpd's child process (npx could not be spawned):
\* a message, the run fails, and main exits before any close handler
DcJscpdError ==
    /\ dc.pc = "jscpd"
    /\ dc.written = NoFile
    /\ dc' = DcExit([dc EXCEPT !.out = @ \cup {Msg("Error running jscpd", "")}], FALSE)
    /\ UNCHANGED <<orchestrator, iq, sc>>

DupNext ==
    \/ DcHelp
    \/ DcMain
    \/ DcProbeClose
    \/ JscpdWritesReport
    \/ DcJscpdClose
    \/ DcJscpdError

DupSpec == DupInit /\ [][DupNext]_vars

(* ------------------------------ properties ------------------------------ *)

\* child processes (probes and tool commands) that have not terminated
Outstanding == {i \in DOMAIN slots : slots[i] \in {"probe", "cmd"}}

\* the child processes of tool t have all terminated
Terminated(t) ==
    \/ runs[t].probe \in {"nonzero", "error"}
    \/ runs[t].exit \in {"zero", "nonzero", "error"}

Exited == pc = "exited"

ValidRun == options.tool \in ValidIdentifiers

UnknownRun == options.tool \notin ValidIdentifiers \cup HelpWords \cup {""}

FixAllRun == options.tool = "all" /\ options.fix

IsPrefix(s, t) == Len(s) <= Len(t) /\ \A k \in DOMAIN s : s[k] = t[k]

RECURSIVE CallTools(_)
CallTools(cs) == IF cs = <<>> THEN <<>> ELSE Head(cs).toolNames \o CallTools(Tail(cs))

\* C1: when a run of a valid identifier has ended, every tool of the list
\* the identifier resolves to has been invoked exactly once (its probe and,
\* if the probe succeeded, its command once), and no other tool has been.
C1_EveryResolvedToolInvokedOnce ==
    (Exited /\ ValidRun) =>
        \A t \in ToolNames :
            /\ runs[t].calls = IF t \in Range(Resolve(options.tool)) THEN 1 ELSE 0
            /\ runs[t].spawns = IF runs[t].probe = "ok" THEN 1 ELSE 0

\* C2: when a run of a valid identifier has ended, the exit code is 1 iff
\* some tool of the resolved list has outcome fail, and 0 iff none has.
C2_ExitCodeIffResolvedToolFails ==
    (Exited /\ ValidRun) =>
        LET anyFails == \E t \in Range(Resolve(options.tool)) : t \in failing
        IN  /\ (exitCode = 1) <=> anyFails
            /\ (exitCode = 0) <=> ~anyFails

\* the phase of the fix-mode pipeline a tool belongs to
Phase(t) ==
    IF tools[t].category = "formatting" THEN 1
    ELSE IF tools[t].category \in {"linting", "type-checking"} THEN 2
    ELSE 3

\* C3: in a run of `all` with --fix at most one child process is
\* outstanding; tools are invoked formatting first, then the linter and
\* after it the type checker, then security and analysis; a tool is invoked
\* only when every tool invoked before it has terminated; formatters and
\* the linter are spawned with their fix command; at the end all three
\* phases have been run.
C3_FixAllThreePhasesSequential ==
    FixAllRun =>
        /\ Cardinality(Outstanding) <= 1
        /\ \A j, k \in DOMAIN invoked :
              j < k =>
                 /\ Phase(invoked[j]) <= Phase(invoked[k])
                 /\ ~(/\ tools[invoked[j]].category = "type-checking"
                      /\ tools[invoked[k]].category = "linting")
                 /\ Terminated(invoked[j])
        /\ \A t \in ToolNames :
              (runs[t].spawns > 0 /\ tools[t].category \in {"formatting", "linting"})
                 => runs[t].args = "fix"
        /\ Exited =>
              /\ \A t \in ToolNames : tools[t].category = "formatting" => runs[t].calls = 1
              /\ \E t \in ToolNames : tools[t].category = "linting" /\ runs[t].calls = 1
              /\ runs["type-check"].calls = 1
              /\ \A t \in Range(toolGroups["security"]) \cup Range(toolGroups["analysis"]) :
                    runs[t].calls = 1

C3_Witness ==
    /\ Exited /\ FixAllRun /\ options.parallel
    /\ Len(invoked) = 10
    /\ runs["prettier"].args = "fix"
    /\ runs["eslint"].args = "fix"
    /\ runs["dependency-check"].exit = "zero"

\* the type checker and the security, dead-code, duplication, complexity,
\* maintainability and dependency tools
CheckOnlyTools ==
    {t \in ToolNames : tools[t].category \notin {"formatting", "import-sorting", "linting"}}

\* C4: in a run of `all` with --fix no check-only tool is ever spawned with
\* its fix command, and at the end each has been invoked once, with its
\* check command when its probe succeeded.
C4_FixAllCheckOnlyTools ==
    FixAllRun =>
        \A t \in CheckOnlyTools :
            /\ runs[t].args # "fix"
            /\ Exited =>
                  /\ runs[t].calls = 1
                  /\ runs[t].probe = "ok" => (runs[t].args = "check" /\ runs[t].spawns = 1)

C4_Witness ==
    /\ Exited /\ FixAllRun
    /\ tools["security-scanning"].hasFixArgs
    /\ runs["security-scanning"].args = "check"
    /\ runs["type-check"].args = "check"
    /\ runs["prettier"].args = "fix"

\* C5: in a run with --parallel, while a child process of a
\* formatting-category tool is outstanding no other child process is.
C5_FormattingNeverConcurrent ==
    options.parallel =>
        \A i \in Outstanding :
            tools[cur.toolNames[i]].category = "formatting" => Outstanding = {i}

\* the tools main calls runTool for, in order, as fixed by the options alone
Plan(o) == CallTools(Calls(o, Resolve(o.tool)))

\* C6: the tools invoked so far are always an initial part of the list
\* fixed by identifier and flags alone, and at the end of the run the whole
\* list has been invoked, whatever the tools' outcomes were.
C6_FailureNeverAborts ==
    ValidRun =>
        /\ IsPrefix(invoked, Plan(options))
        /\ Exited => invoked = Plan(options)

C6_Witness ==
    /\ Exited /\ ValidRun
    /\ \E j, k \in DOMAIN invoked :
          /\ j < k
          /\ invoked[j] \in failing
          /\ runs[invoked[j]].exit = "nonzero"
          /\ runs[invoked[k]].spawns = 1

\* C7: a tool's command is spawned only after its probe ended with code 0;
\* when the probe fails nothing is spawned for the tool, TOOL NOT INSTALLED
\* is reported for it (and only then), and at the end the tool is in the
\* results as failed and the exit code is 1.
C7_ProbeGatesCommand ==
    \A t \in ToolNames :
        /\ runs[t].spawns > 0 => runs[t].probe = "ok"
        /\ runs[t].probe \in {"nonzero", "error"} =>
              /\ runs[t].spawns = 0
              /\ runs[t].args = "none"
              /\ Msg("TOOL NOT INSTALLED", t) \in out
              /\ Exited =>
                    /\ \E k \in DOMAIN results :
                          results[k] = [tool |-> t, success |-> FALSE]
                    /\ exitCode = 1
        /\ Msg("TOOL NOT INSTALLED", t) \in out =>
              runs[t].probe \in {"nonzero", "error"}

C7_Witness ==
    /\ Exited
    /\ \E t, u \in ToolNames :
          /\ runs[t].probe = "error"
          /\ runs[t].spawns = 0
          /\ runs[u].spawns = 1
    /\ exitCode = 1

\* C8: a run whose identifier is neither a suite nor a tool spawns no
\* child process and, unless the identifier is a help word, ends with
\* exit code 1.
C8_UnknownSpawnsNothingExitsOne ==
    (Exited /\ ~ValidRun) =>
        /\ \A t \in ToolNames : runs[t].calls = 0 /\ runs[t].spawns = 0
        /\ invoked = <<>>
        /\ UnknownRun => exitCode = 1

C8_Witness ==
    /\ Exited
    /\ options.tool = "bogus"
    /\ options.parallel /\ options.fix
    /\ exitCode = 1
    /\ invoked = <<>>

\* C9: the step main takes for an identifier that is neither a suite nor a
\* tool leaves the filesystem (the reports directory) as it found it.
C9_UnknownLeavesFilesystemUnchanged ==
    [][(pc = "start" /\ UnknownRun') => reportsDir' = reportsDir]_vars

\* C10: the error reported for an identifier that is neither a suite nor a
\* tool names every valid identifier.
C10_ErrorNamesAllValidIdentifiers ==
    (Exited /\ UnknownRun) =>
        \A id \in ValidIdentifiers : \E m \in out : m.about = id

\* C10 amended: the error names no valid identifier; it names the
\* identifier given and points to `help` (for an inherited property name
\* it is the TypeError caught by main().catch).
C10_ErrorNamesGivenIdentifierAndHelp ==
    (Exited /\ UnknownRun) =>
        /\ \A m \in out : m.about \notin ValidIdentifiers
        /\ options.tool \notin ProtoKeys =>
              /\ Msg("Unknown tool or group", options.tool) \in out
              /\ Msg("Use", "help") \in out
        /\ options.tool \in ProtoKeys => Msg("Error", "TypeError") \in out
        /\ exitCode = 1

C10_Witness ==
    /\ Exited
    /\ options.tool = "bogus"
    /\ Msg("Unknown tool or group", "bogus") \in out
    /\ Msg("Use", "help") \in out
    /\ ~options.quiet

\* the tool names of a results array, in order
ResultTools(rs) == [k \in DOMAIN rs |-> rs[k].tool]

\* a child process of tool t has been started and has not terminated
Started(t) == runs[t].calls > 0

SummaryPrinted == Msg("SUMMARY", "") \in out

\* C11 (safety part): a child process that has not terminated belongs to
\* the call main is awaiting; once the summary is printed or the process
\* has exited, every tool invocation that was started has terminated, and
\* a run of a valid identifier exits only with the summary printed.
C11_NothingOutstandingAtSummary ==
    /\ \A t \in ToolNames :
          (Started(t) /\ ~Terminated(t)) =>
              \E i \in Outstanding : cur.toolNames[i] = t
    /\ (SummaryPrinted \/ Exited) =>
          \A t \in ToolNames : Started(t) => Terminated(t)
    /\ (Exited /\ ValidRun) => (SummaryPrinted /\ exitCode \in {0, 1})

\* C11: no early exit, and when every child process terminates the run
\* ends: it prints the summary and exits.
C11_AwaitsAllThenExits ==
    /\ []C11_NothingOutstandingAtSummary
    /\ (pc = "running") ~> (Exited /\ SummaryPrinted)
    /\ <>Exited

C11_Witness ==
    /\ Exited /\ SummaryPrinted
    /\ options.tool = "required" /\ options.parallel
    /\ Len(order) = 4 /\ order[1] = 4
    /\ \A t \in Range(toolGroups["required"]) : Terminated(t)

\* position of tool t in the list the identifier resolves to, 0 if absent
ResolvedIndex(t) == FindIndex(Resolve(options.tool), t)

\* C12: at the end of a run, whatever the order in which the child
\* processes completed, the results list the tools in the order in which
\* main issued them, which for the tools of the resolved list is the
\* resolved order.
C12_ResultsInResolvedOrder ==
    (Exited /\ ValidRun) =>
        /\ ResultTools(results) = Plan(options)
        /\ \A j, k \in DOMAIN results :
              (/\ j < k
               /\ ResolvedIndex(results[j].tool) # 0
               /\ ResolvedIndex(results[k].tool) # 0)
                 => ResolvedIndex(results[j].tool) < ResolvedIndex(results[k].tool)

C12_Witness ==
    /\ Exited /\ ValidRun /\ options.parallel
    /\ options.tool = "required"
    /\ order = <<4, 2, 3, 1>>
    /\ ResultTools(results) = toolGroups["required"]

\* the tools whose descriptor has no fixArgs
NoFixTools == {t \in ToolNames : ~tools[t].hasFixArgs}

\* the result main holds for tool t says success
Succeeded(t) == \E k \in DOMAIN results : results[k] = [tool |-> t, success |-> TRUE]

\* the message types runTool and printSummary use for a tool in check mode
CheckModeMessages ==
    {"description", "PASSED", "FAILED", "ERROR", "TOOL NOT INSTALLED",
     "Install with", "Failed tool", "output"}

\* C13: in a run with --fix, a tool without a fix command whose probe
\* succeeded has at the end been spawned exactly once, with its check
\* command, succeeds iff that command exited 0, and an informational
\* `no fix available` message has been printed for it.
C13_NoFixAvailableReported ==
    (Exited /\ options.fix) =>
        \A t \in NoFixTools :
            runs[t].probe = "ok" =>
                /\ runs[t].spawns = 1
                /\ runs[t].args = "check"
                /\ Succeeded(t) <=> runs[t].exit = "zero"
                /\ Msg("no fix available", t) \in out

\* C13 amended: in a run with --fix, a tool without a fix command is never
\* spawned with fix args; once its probe has succeeded its check command
\* has been spawned exactly once; at the end it succeeds iff that command
\* exited 0; and nothing is printed about the missing fix command: every
\* message about the tool is one of check mode.
C13_CheckRunsOnceNothingReported ==
    options.fix =>
        \A t \in NoFixTools :
            /\ runs[t].args # "fix"
            /\ runs[t].probe = "ok" => (runs[t].spawns = 1 /\ runs[t].args = "check")
            /\ \A m \in out : m.about = t => m.type \in CheckModeMessages
            /\ (Exited /\ runs[t].probe = "ok") =>
                  (Succeeded(t) <=> runs[t].exit = "zero")

C13_Witness ==
    /\ Exited /\ options.fix
    /\ options.tool = "type-check"
    /\ runs["type-check"].spawns = 1
    /\ runs["type-check"].args = "check"
    /\ runs["type-check"].exit = "nonzero"
    /\ ~Succeeded("type-check")
    /\ exitCode = 1

\* the identifier is omitted: no argument, or option flags only
IdentifierOmitted == Range(args) \subseteq Range(Flags)

\* C14: a run whose identifier is omitted or is `help` ends with the usage
\* printed, no tool invoked and exit code 0.
C14_OmittedOrHelpPrintsUsage ==
    (Exited /\ (IdentifierOmitted \/ args[1] = "help")) =>
        /\ Msg("help", "") \in out
        /\ invoked = <<>>
        /\ \A t \in ToolNames : runs[t].calls = 0
        /\ exitCode = 0

\* the argument list holds the single token --source-dir=lib
SingleTokenSourceDir == \E i \in DOMAIN args : args[i] = "--source-dir=lib"

\* C16: in a run given --source-dir=lib, every command spawned for a tool
\* whose args name the source directory is given the directory lib, not src.
C16_SingleTokenSourceDirApplies ==
    SingleTokenSourceDir =>
        \A t \in ToolNames :
            (runs[t].spawns > 0 /\ tools[t].path = "src") => runs[t].target = "lib"

\* the tools of quality-check.cjs that suite s runs
CjsSuiteTools(s) == Range(suites[s]) \cap CjsToolNames

\* C15: every member of every suite of the main script is a registered
\* tool, and a run of a suite of the generated quality-check.cjs ends
\* without an `Unknown tool` error and, when every tool of the suite
\* passes, with exit code 0.
C15_SuiteMembersRegistered ==
    /\ \A g \in GroupNames : Range(toolGroups[g]) \subseteq ToolNames
    /\ (iq.pc = "exited" /\ iq.suite) =>
          /\ \A m \in iq.out : m.type # "Unknown tool"
          /\ (CjsSuiteTools(iq.args[1]) \cap iq.failing = {}) => iq.exitCode = 0

\* the scorer has computed an overall score and exited
Scored == sc.pc = "exited" /\ sc.scored

\* the files analyzed without error
Successful == {i \in DOMAIN sc.results : ~sc.results[i].error}

RECURSIVE Sum(_)
Sum(f) ==
    IF DOMAIN f = {} THEN 0
    ELSE LET i == CHOOSE j \in DOMAIN f : TRUE
         IN  f[i] + Sum([j \in DOMAIN f \ {i} |-> f[j]])

RECURSIVE Gcd(_, _)
Gcd(a, b) == IF b = 0 THEN a ELSE Gcd(b, a % b)

\* a rational in lowest terms
Normal(r) ==
    LET g == Gcd(IF r.num < 0 THEN -r.num ELSE r.num, r.den)
    IN  Rat(r.num \div g, r.den \div g)

\* the mean of the successfully analyzed files' scores under weights w
WeightedMean(w) ==
    Rat(Sum([i \in Successful |-> FileScore(sc.results[i]) * w[i]]),
        Sum([i \in Successful |-> w[i]]))

\* C17: when the successfully analyzed files have a positive total line
\* count, the overall score is the mean of their penalized scores weighted
\* by exactly their line counts.
C17_WeightIsLineCount ==
    LET w == [i \in Successful |-> sc.results[i].lines] IN
    (Scored /\ Sum(w) > 0) =>
        Normal(sc.overallScore) = Normal(WeightedMean(w))

\* C17 amended: when at least one file was successfully analyzed, the
\* overall score is the mean of their penalized scores weighted by
\* max(1, line count): a file of line count 0 has weight 1.
C17_WeightIsLineCountAtLeastOne ==
    LET w == [i \in Successful |-> Max(1, sc.results[i].lines)] IN
    (Scored /\ Successful # {}) =>
        Normal(sc.overallScore) = Normal(WeightedMean(w))

C17_Witness ==
    /\ Scored
    /\ \E i, j \in Successful :
          /\ sc.results[i].lines = 0
          /\ sc.results[j].lines > maxLines
          /\ sc.results[j].complexity > maxCyclomatic
          /\ FileScore(sc.results[j]) > 0
          /\ FileScore(sc.results[j]) < FileScore(sc.results[i])

\* C18: the score every successfully analyzed file enters the aggregate
\* with is never negative.
C18_FileScoreNeverNegative ==
    Scored => \A i \in Successful : FileScore(sc.results[i]) >= 0

\* C19: the overall score is between 0 and 100 inclusive.
C19_OverallScoreWithin0And100 ==
    Scored =>
        /\ sc.overallScore.num >= 0
        /\ sc.overallScore.num <= 100 * Scale * sc.overallScore.den

\* C20: raising the cyclomatic complexity of one file, everything else
\* unchanged, never raises the overall score.
C20_MonotoneInComplexity ==
    Scored =>
        \A i \in Successful, c \in Complexities :
            c >= sc.results[i].complexity =>
                LET raised == calculateMaintainabilityScore(
                                  [sc.results EXCEPT ![i].complexity = c])
                IN  /\ raised.den = sc.overallScore.den
                    /\ raised.num <= sc.overallScore.num

\* the scorer has scanned the source directory, found no file to analyze
\* and exited
NoEligibleFile == sc.pc = "exited" /\ sc.scanned /\ sc.files = <<>>

\* C21: a run that finds no eligible file still produces a report, with
\* overall score 0 and a 'no files analyzed' recommendation, and does not
\* fail.
C21_EmptyRunStillReports ==
    NoEligibleFile =>
        /\ sc.report.made
        /\ sc.report.overallScore.num = 0
        /\ "No files analyzed" \in sc.report.recommendations
        /\ sc.exitCode = 0

\* C22: when the analyzer cannot be loaded the run scans and analyzes no
\* file and ends with a non-zero exit code.
C22_MissingAnalyzerFails ==
    (sc.pc = "exited" /\ ~sc.help /\ ~sc.analyzer) =>
        /\ ~sc.scanned
        /\ sc.results = <<>>
        /\ sc.exitCode # 0

\* the results without the error entries
WithoutErrors(rs) == SelectSeqIn(rs, {r \in Range(rs) : ~r.error})

\* C23: a file whose analysis fails yields an error entry with zero
\* metrics for that file only, every other file is still analyzed and the
\* run completes with a report; next to a successfully analyzed file,
\* removing the error entries or adding one leaves the overall score
\* unchanged.
C23_ErrorEntriesCarryNoWeight ==
    Scored =>
        /\ sc.report.made
        /\ Len(sc.results) = Len(sc.files)
        /\ sc.report.totalFiles = Len(sc.files)
        /\ sc.report.errorFiles = Len(sc.results) - Cardinality(Successful)
        /\ \A i \in DOMAIN sc.results :
              /\ sc.results[i].error <=> sc.files[i].outcome.error
              /\ ~sc.results[i].error => sc.results[i] = sc.files[i].outcome
              /\ sc.results[i].error =>
                    /\ sc.results[i].maintainability = 0
                    /\ sc.results[i].complexity = 0
                    /\ sc.results[i].lines = 0
                    /\ sc.results[i].functions = <<>>
        /\ Successful # {} =>
              /\ calculateMaintainabilityScore(WithoutErrors(sc.results)) = sc.overallScore
              /\ calculateMaintainabilityScore(Append(sc.results, ErrorEntry)) = sc.overallScore
              /\ calculateMaintainabilityScore(<<ErrorEntry>> \o sc.results) = sc.overallScore

\* a scored run with a failed file next to a successfully analyzed one
\* whose score is positive
C23_Witness ==
    /\ Scored
    /\ \E i, j \in DOMAIN sc.results :
          /\ sc.results[i].error
          /\ ~sc.results[j].error
          /\ FileScore(sc.results[j]) > 0
    /\ sc.overallScore.num > 0

\* the scores the grades are compared at, in fiftieths
GradeProbes == {Rat(n * Scale, 1) : n \in {-5, 0, 59, 60, 69, 70, 79, 80, 89, 90, 100, 171}}

\* the grades, worst first
GradeRank(grade) ==
    CASE grade = "Requires Refactoring" -> 0
      [] grade = "Needs Improvement" -> 1
      [] grade = "Acceptable" -> 2
      [] grade = "Good" -> 3
      [] grade = "Excellent" -> 4

\* C24: with the default cut points the grade of the report is Excellent
\* exactly from 90, Good from 80 to below 90, Acceptable from 70 to below
\* 80, Needs Improvement from 60 to below 70 and Requires Refactoring
\* below 60, and a higher score never gets a worse grade.
C24_GradeCutPoints ==
    Scored =>
        LET s == sc.overallScore
            grade == sc.report.grade
            From(n) == s.num >= n * Scale * s.den
        IN  /\ (grade = "Excellent") <=> From(90)
            /\ (grade = "Good") <=> (From(80) /\ ~From(90))
            /\ (grade = "Acceptable") <=> (From(70) /\ ~From(80))
            /\ (grade = "Needs Improvement") <=> (From(60) /\ ~From(70))
            /\ (grade = "Requires Refactoring") <=> ~From(60)
            /\ \A t \in GradeProbes :
                  /\ t.num * s.den >= s.num => GradeRank(getGrade(t)) >= GradeRank(grade)
                  /\ t.num * s.den <= s.num => GradeRank(getGrade(t)) <= GradeRank(grade)

\* a scored run whose overall score is exactly 90, graded Excellent
C24_Witness ==
    /\ Scored
    /\ Len(sc.results) = 2
    /\ sc.overallScore.num = 90 * Scale * sc.overallScore.den
    /\ sc.report.grade = "Excellent"

\* C25: a test file of the source directory is left out without
\* --include-tests and is enumerated and analyzed with it.
C25_TestFilesFollowIncludeTests ==
    (sc.pc = "exited" /\ sc.scanned) =>
        \A i \in DOMAIN sc.dir :
            isTestFile(sc.dir[i].path) =>
                ((\E k \in DOMAIN sc.results : sc.files[k].path = sc.dir[i].path)
                     <=> "--include-tests" \in Range(sc.args))

\* C26: a scoring pass over at least one file exits 0 exactly when the
\* overall score is at least N, the number of --threshold=N when it is
\* given and 70 when it is not, and exits 1 otherwise.
C26_ExitFollowsThreshold ==
    Scored =>
        LET N == IF "--threshold=0" \in Range(sc.args) THEN 0
                 ELSE IF "--threshold=90" \in Range(sc.args) THEN 90
                 ELSE 70
            reached == sc.overallScore.num >= N * Scale * sc.overallScore.den
        IN  sc.exitCode = IF reached THEN 0 ELSE 1

\* the slots whose child process runs the fix command of its tool
FixOutstanding ==
    {i \in DOMAIN slots : slots[i] = "cmd" /\ runs[cur.toolNames[i]].args = "fix"}

\* C27: whatever the identifier and the flags, no two child processes
\* running a fix command are outstanding at the same time.
C27_FixCommandsNeverConcurrent == Cardinality(FixOutstanding) <= 1

\* C28: in quiet mode no tool stays blocked on a full pipe, whatever it
\* writes to stdout and stderr: a quiet run that has started its tools
\* eventually exits.
C28_QuietRunCompletes == (pc = "running" /\ options.quiet) ~> Exited

\* a run of the duplication checker has ended in the close handler of jscpd
DcClosed == dc.pc = "idle" /\ dc.ran > 0 /\ dc.code # -1

\* C29: the verdict of a run is the one its own jscpd execution's report
\* gives: a report left by an earlier run decides nothing when this run's
\* jscpd failed or wrote no report.
C29_VerdictFromOwnReport ==
    DcClosed => dc.exitCode = IF Passes(dc.written, dc.maxPercentage) THEN 0 ELSE 1

\* C30: a run leaves a .jscpd.json that exists in the project root as it
\* was.
C30_ConfigFileUntouched ==
    (dc.pc = "idle" /\ dc.ran > 0 /\ dc.configAtStart = "user") =>
        dc.jscpdConfig = "user"

====
